---- MODULE Spec2Model ----
(***************************************************************************)
(* A model of the rig register virtual machine: rig-bytecode's Instruction *)
(* set and rig-runtime's VM (new, run, execute, compare) together with the *)
(* PartialEq and PartialOrd implementations of Value.                      *)
(*                                                                         *)
(* Representation.                                                         *)
(*  - A Value is a record with a tag t and, except for Undefined and Null, *)
(*    a payload v.  An Object or Array payload is the address of the       *)
(*    aggregate in heap: the Rc pointer.                                   *)
(*  - A Number payload is an f64, held as a pair <<n, d>>: with d > 0 the  *)
(*    f64 nearest to the fraction n/d in lowest terms, <<1, 0>> and        *)
(*    <<-1, 0>> the two infinities, <<0, 0>> NaN.  The two zeros of f64,   *)
(*    which compare equal, are one payload.  No program of the model       *)
(*    feeds the result of one arithmetic instruction to another, so no     *)
(*    payload is rounded twice.                                            *)
(*  - pc is a usize.  The values 0 .. 2^63-1 stand for themselves and a    *)
(*    negative v stands for 2^64 + v, which is what the cast               *)
(*    `(self.pc as i32 + offset) as usize` produces for a negative sum.    *)
(*    So -1 is usize::MAX.                                                 *)
(*  - program and constants are 0-indexed Vecs: program[pc + 1] is the     *)
(*    instruction at position pc.                                          *)
(*  - status is the position of `run`: "running" inside the while loop,    *)
(*    "halted" once the loop condition failed and run returned, "panicked" *)
(*    once a panic! (or an overflow or index check) unwound out of run.    *)
(*  - last is a history variable: the instruction most recently           *)
(*    dispatched by run, the position it was fetched from, and the         *)
(*    registers, call stack, scopes and heap as they were when it was      *)
(*    fetched.                                                             *)
(*  - stored is a history variable: one entry for every store a SetProp    *)
(*    or SetElem completed, in the order of execution: the aggregate, the  *)
(*    key or position and the Value stored.                                *)
(*  - call_scopes is a history variable: for every entry of call_stack,   *)
(*    the scope stack as it was when that Call was fetched.                *)
(*  - slots is a history variable: for every entry of scopes, the         *)
(*    variables SetScope and DeclareVar wrote while it was on top of the   *)
(*    stack, as a function from the variable's index to its Value.         *)
(***************************************************************************)
EXTENDS Integers, Sequences, FiniteSets, TLC

VARIABLES program, constants, registers, pc, call_stack, scopes, heap,
          strict_mode, status, last, stored, call_scopes, slots

vars == <<program, constants, registers, pc, call_stack, scopes, heap,
          strict_mode, status, last, stored, call_scopes, slots>>

(***************************************************************************)
(* Bounds of the model.                                                    *)
(***************************************************************************)
\* Register operands are drawn from 0 .. MaxReg (of the 256 registers).
MaxReg == 2
\* Jump offsets are drawn from -MaxOff .. MaxOff.
MaxOff == 3
\* arg_count, start_reg's count, param_count are drawn from 0 .. MaxArg.
MaxArg == 1
\* Closure's func_idx is drawn from 0 .. MaxFn.
MaxFn == 4
\* Scope variable indices are drawn from 0 .. MaxVar.
MaxVar == 1
\* The call stack is followed up to this depth.
MaxDepth == 3
\* The heap is followed up to this many aggregates.
MaxHeap == 3

Regs == 0 .. MaxReg
Offsets == (0 - MaxOff) .. MaxOff

(***************************************************************************)
(* f64: the payload of Value::Number and the operators execute applies.    *)
(***************************************************************************)
NaN == <<0, 0>>
Inf == <<1, 0>>
NegInf == <<0 - 1, 0>>

Abs(n) == IF n < 0 THEN 0 - n ELSE n

Gcd(a, b) ==
    LET m == IF Abs(a) > Abs(b) THEN Abs(a) ELSE Abs(b)
    IN  IF m = 0 THEN 1
        ELSE CHOOSE g \in 1 .. m :
                 /\ a % g = 0
                 /\ b % g = 0
                 /\ \A h \in (g + 1) .. m : a % h # 0 \/ b % h # 0

\* The f64 of the fraction n/d, d # 0, in lowest terms with a positive
\* denominator.
Ratio(n, d) ==
    LET g == Gcd(n, d)
        sgn == IF d < 0 THEN 0 - 1 ELSE 1
    IN  <<(sgn * n) \div g, (sgn * d) \div g>>

\* An integer literal as f64.
Whole(n) == <<n, 1>>

IsFinite(x) == x[2] # 0

Sign(x) == IF x[1] > 0 THEN 1 ELSE IF x[1] < 0 THEN 0 - 1 ELSE 0

\* f64::partial_cmp: None when either side is NaN.
F64Cmp(x, y) ==
    IF x = NaN \/ y = NaN THEN "None"
    ELSE IF IsFinite(x) /\ IsFinite(y)
         THEN (IF x[1] * y[2] < y[1] * x[2] THEN "Less"
               ELSE IF x[1] * y[2] = y[1] * x[2] THEN "Equal" ELSE "Greater")
         ELSE LET rx == IF IsFinite(x) THEN 0 ELSE x[1]
                  ry == IF IsFinite(y) THEN 0 ELSE y[1]
              IN  IF rx < ry THEN "Less" ELSE IF rx = ry THEN "Equal" ELSE "Greater"

\* `a == b` on f64: NaN equals nothing, itself included.
F64Eq(x, y) == F64Cmp(x, y) = "Equal"

\* |x, y| x + y
F64Add(x, y) ==
    IF x = NaN \/ y = NaN THEN NaN
    ELSE IF IsFinite(x) /\ IsFinite(y) THEN Ratio(x[1] * y[2] + y[1] * x[2], x[2] * y[2])
    ELSE IF IsFinite(y) THEN x
    ELSE IF IsFinite(x) THEN y
    ELSE IF x = y THEN x ELSE NaN

\* -x
F64Neg(x) == <<0 - x[1], x[2]>>

\* |x, y| x - y
F64Sub(x, y) == F64Add(x, F64Neg(y))

\* |x, y| x * y: a product with an infinity is an infinity of the product's
\* sign, and NaN when the other factor is zero or NaN.
F64Mul(x, y) ==
    IF IsFinite(x) /\ IsFinite(y) THEN Ratio(x[1] * y[1], x[2] * y[2])
    ELSE <<Sign(x) * Sign(y), 0>>

\* 1.0 / y
Recip(y) ==
    IF y = NaN THEN NaN
    ELSE IF ~IsFinite(y) THEN Whole(0)
    ELSE IF y[1] = 0 THEN Inf
    ELSE Ratio(y[2], y[1])

\* |x, y| x / y: x/0 is an infinity of x's sign, 0/0 and Inf/Inf are NaN.
F64Div(x, y) == F64Mul(x, Recip(y))

\* The integer part of a finite f64, rounded toward zero.
Trunc(x) == IF x[1] >= 0 THEN x[1] \div x[2] ELSE 0 - ((0 - x[1]) \div x[2])

\* |x, y| x % y: the remainder of the division truncated toward zero, with
\* the sign of x; NaN for an infinite x or a zero y, x for an infinite y.
F64Rem(x, y) ==
    IF x = NaN \/ y = NaN THEN NaN
    ELSE IF ~IsFinite(x) THEN NaN
    ELSE IF ~IsFinite(y) THEN x
    ELSE IF y[1] = 0 THEN NaN
    ELSE F64Sub(x, F64Mul(y, Whole(Trunc(F64Div(x, y)))))

\* |x, y| x.powf(y) for an exponent that is an integer, an infinity or NaN.
\* powf(x, 0) and powf(1, y) are 1 for every x and y, NaN included.
F64Pow(x, y) ==
    IF y = Whole(0) \/ x = Whole(1) THEN Whole(1)
    ELSE IF x = NaN \/ y = NaN THEN NaN
    ELSE IF ~IsFinite(y)
         THEN (IF IsFinite(x) /\ Abs(x[1]) = x[2] THEN Whole(1)
               ELSE IF (IsFinite(x) /\ Abs(x[1]) < x[2]) = (y = Inf) THEN Whole(0)
               ELSE Inf)
    ELSE LET k == Abs(y[1])
             xk == IF IsFinite(x) THEN Ratio(x[1] ^ k, x[2] ^ k)
                   ELSE IF x = NegInf /\ k % 2 = 1 THEN NegInf ELSE Inf
         IN  IF y[1] > 0 THEN xk ELSE Recip(xk)

\* `fidx.floor() as usize`: the cast saturates, so NaN and every negative
\* f64 give 0 and every f64 of 2^64 or more gives usize::MAX, written -1.
FloorAsUsize(x) ==
    IF x = NaN THEN 0
    ELSE IF ~IsFinite(x) THEN (IF x = Inf THEN 0 - 1 ELSE 0)
    ELSE IF x[1] < 0 THEN 0
    ELSE x[1] \div x[2]

(***************************************************************************)
(* enum Value                                                              *)
(***************************************************************************)
Undefined == [t |-> "Undefined"]
Null == [t |-> "Null"]
Boolean(b) == [t |-> "Boolean", v |-> b]
\* Value::Number of the f64 x.
NumberF64(x) == [t |-> "Number", v |-> x]
\* Value::Number of an integer literal (5.0 is Number(5)).
Number(n) == NumberF64(Whole(n))
String(s) == [t |-> "String", v |-> s]
Object(a) == [t |-> "Object", v |-> a]
Array(a) == [t |-> "Array", v |-> a]
Function(f) == [t |-> "Function", v |-> f]

\* The strings of the model in the order of str's Ord (byte-wise lexicographic).
StrOrder == <<"a", "b", "boolean", "function", "number", "object", "string", "undefined">>

StrRank(s) == CHOOSE i \in 1 .. Len(StrOrder) : StrOrder[i] = s

\* Ord::cmp on two payloads of one scalar kind, by rank.
Cmp(x, y) == IF x < y THEN "Less" ELSE IF x = y THEN "Equal" ELSE "Greater"

BoolRank(b) == IF b THEN 1 ELSE 0

\* A variant of ValueEq: aggregates compared by their contents.
ValueEqDeep(x, y) ==
    /\ x.t = y.t
    /\ CASE x.t \in {"Undefined", "Null"} -> TRUE
         [] x.t \in {"Object", "Array"} -> heap[x.v] = heap[y.v]
         [] OTHER -> x.v = y.v

\* impl PartialEq for Value: fn eq.  Object and Array compare by Rc::ptr_eq.
ValueEq(x, y) ==
    /\ x.t = y.t
    /\ CASE x.t = "Undefined" -> TRUE
         [] x.t = "Null" -> TRUE
         [] x.t = "Boolean" -> x.v = y.v
         [] x.t = "Number" -> F64Eq(x.v, y.v)
         [] x.t = "String" -> x.v = y.v
         [] x.t = "Object" -> x.v = y.v
         [] x.t = "Array" -> x.v = y.v
         [] x.t = "Function" -> x.v = y.v

\* impl PartialOrd for Value: fn partial_cmp, "None" where no order is defined.
partial_cmp(x, y) ==
    IF x.t # y.t THEN "None"
    ELSE CASE x.t = "Number" -> F64Cmp(x.v, y.v)
           [] x.t = "String" -> Cmp(StrRank(x.v), StrRank(y.v))
           [] x.t = "Boolean" -> Cmp(BoolRank(x.v), BoolRank(y.v))
           [] x.t = "Function" -> Cmp(x.v, y.v)
           [] OTHER -> "None"

\* The provided methods PartialOrd::lt and PartialOrd::le, which `<` and `<=` call.
ValueLt(x, y) == partial_cmp(x, y) = "Less"

ValueLe(x, y) == partial_cmp(x, y) \in {"Less", "Equal"}

(***************************************************************************)
(* enum Instruction                                                        *)
(***************************************************************************)
LoadConst(reg, const_idx) == [op |-> "LoadConst", reg |-> reg, const_idx |-> const_idx]
LoadUndefined(reg) == [op |-> "LoadUndefined", reg |-> reg]
LoadNull(reg) == [op |-> "LoadNull", reg |-> reg]
LoadBool(reg, value) == [op |-> "LoadBool", reg |-> reg, value |-> value]
Move(dst, src) == [op |-> "Move", dst |-> dst, src |-> src]
Add(dst, a, b) == [op |-> "Add", dst |-> dst, a |-> a, b |-> b]
Sub(dst, a, b) == [op |-> "Sub", dst |-> dst, a |-> a, b |-> b]
Mul(dst, a, b) == [op |-> "Mul", dst |-> dst, a |-> a, b |-> b]
Div(dst, a, b) == [op |-> "Div", dst |-> dst, a |-> a, b |-> b]
Mod(dst, a, b) == [op |-> "Mod", dst |-> dst, a |-> a, b |-> b]
Pow(dst, a, b) == [op |-> "Pow", dst |-> dst, a |-> a, b |-> b]
Neg(dst, a) == [op |-> "Neg", dst |-> dst, a |-> a]
Eq(a, b) == [op |-> "Eq", a |-> a, b |-> b]
Lt(a, b) == [op |-> "Lt", a |-> a, b |-> b]
Le(a, b) == [op |-> "Le", a |-> a, b |-> b]
Jmp(offset) == [op |-> "Jmp", offset |-> offset]
JmpIf(cond, offset) == [op |-> "JmpIf", cond |-> cond, offset |-> offset]
Call(func_reg, arg_count) == [op |-> "Call", func_reg |-> func_reg, arg_count |-> arg_count]
Return(start_reg, count) == [op |-> "Return", start_reg |-> start_reg, count |-> count]
NewObject(reg) == [op |-> "NewObject", reg |-> reg]
GetProp(dst, obj, key) == [op |-> "GetProp", dst |-> dst, obj |-> obj, key |-> key]
SetProp(obj, key, value) == [op |-> "SetProp", obj |-> obj, key |-> key, value |-> value]
Closure(reg, func_idx) == [op |-> "Closure", reg |-> reg, func_idx |-> func_idx]
GetScope(dst, var_idx) == [op |-> "GetScope", dst |-> dst, var_idx |-> var_idx]
SetScope(var_idx, src) == [op |-> "SetScope", var_idx |-> var_idx, src |-> src]
NewArray(reg) == [op |-> "NewArray", reg |-> reg]
GetElem(dst, array, index) == [op |-> "GetElem", dst |-> dst, array |-> array, index |-> index]
SetElem(array, index, value) ==
    [op |-> "SetElem", array |-> array, index |-> index, value |-> value]
TypeOf(dst, src) == [op |-> "TypeOf", dst |-> dst, src |-> src]
InstanceOf(dst, obj, ctor) == [op |-> "InstanceOf", dst |-> dst, obj |-> obj, ctor |-> ctor]
DeclareFunc(reg, name_idx, param_count) ==
    [op |-> "DeclareFunc", reg |-> reg, name_idx |-> name_idx, param_count |-> param_count]
DeclareVar(name_idx) == [op |-> "DeclareVar", name_idx |-> name_idx]
UseStrict == [op |-> "UseStrict"]

(***************************************************************************)
(* The inputs of VM::new: the constant pool and the programs.              *)
(***************************************************************************)
ConstPool == <<Number(0), Number(1), String("a"), String("b"), Function(0), Function(1)>>

ConstIdxs == 0 .. (Len(ConstPool) - 1)

\* The instructions that put a Value of each variant into register r.
LoadsInto(r) ==
    {LoadUndefined(r), LoadNull(r), LoadBool(r, TRUE), LoadBool(r, FALSE),
     NewObject(r), NewArray(r)} \cup {LoadConst(r, i) : i \in ConstIdxs}

Loads == UNION {LoadsInto(r) : r \in Regs}

Jumps == {Jmp(k) : k \in Offsets} \cup {JmpIf(c, k) : c \in Regs, k \in Offsets}

Compares == UNION {{Eq(a, b), Lt(a, b), Le(a, b)} : a \in Regs, b \in Regs}

\* Calls on every register, with the least and the greatest arg_count.
Calls == {Call(r, n) : r \in Regs, n \in {0, MaxArg}}

\* Returns with the least and the greatest start_reg and count.
Returns == {Return(r, n) : r \in {0, MaxReg}, n \in {0, MaxArg}}

\* The instructions that put a Function, or Null, into register 1.
FuncLoads ==
    {Closure(1, f) : f \in 0 .. MaxFn}
        \cup {DeclareFunc(1, 0, n) : n \in {0, MaxArg}}
        \cup {LoadNull(1)}

\* A value is loaded, then a jump is taken or not, over two more instructions.
JumpPrograms == {<<l, j, UseStrict, LoadNull(0)>> : l \in Loads, j \in Jumps}

\* A value is loaded into register 1, a second value is loaded into register
\* 0 or 2 (or register 1 is aliased by Move), then two registers are compared.
ComparePrograms ==
    {<<l1, l2, c>> : l1 \in LoadsInto(1),
                     l2 \in LoadsInto(0) \cup LoadsInto(2) \cup {Move(d, 1) : d \in Regs},
                     c \in Compares}

\* A callable is made in register 1, the global scope or register 2 is
\* written, then a call and returns follow.
CallPrograms ==
    {<<f, s, c, r, e>> : f \in FuncLoads,
                         s \in {SetScope(x, 1) : x \in 0 .. MaxVar} \cup {LoadBool(2, TRUE)},
                         c \in Calls,
                         r \in Returns,
                         e \in {Return(0, 0), UseStrict}}

\* Two Objects are made in registers 1 and 2, a constant is loaded into
\* register 0 and stored in both under itself as the key, together with the
\* Value of one register; then registers 1 and 2 are compared.
AggregatePrograms ==
    {<<NewObject(1), NewObject(2), LoadConst(0, i), SetProp(1, 0, x), SetProp(2, 0, x), c>> :
         i \in ConstIdxs, x \in Regs, c \in {Eq(a, b) : a \in {1, 2}, b \in {1, 2}}}

Programs == JumpPrograms \cup ComparePrograms \cup CallPrograms \cup AggregatePrograms

\* The indices of the two String constants of ConstPool.
StrIdxs == {i \in ConstIdxs : ConstPool[i + 1].t = "String"}

\* The instructions that take their operands from registers 1 and 2.
OperandOps ==
    UNION {{Add(d, 1, 2), Sub(d, 1, 2), Mul(d, 1, 2), Div(d, 1, 2), Mod(d, 1, 2), Pow(d, 1, 2),
            Neg(d, 1), GetProp(d, 1, 2), SetProp(1, 2, d), GetElem(d, 1, 2), SetElem(1, 2, d),
            TypeOf(d, 1), InstanceOf(d, 1, 2)} : d \in Regs}
        \cup {Call(1, 0)}

\* A Value of each variant is loaded into register 1 and into register 2, then
\* one instruction takes them as its operands.
OperandPrograms ==
    {<<l1, l2, o>> : l1 \in LoadsInto(1), l2 \in LoadsInto(2), o \in OperandOps}

\* A key is stored in a new Object with the Value of register 0 or the Object
\* itself, a second key is stored or not, then a key is read.
PropPrograms ==
    {<<NewObject(1), l0, LoadConst(2, k1), SetProp(1, 2, x), LoadConst(2, k2), s2,
       LoadConst(2, k3), GetProp(d, 1, 2)>> :
         l0 \in LoadsInto(0), k1 \in StrIdxs, x \in {0, 1}, k2 \in StrIdxs,
         s2 \in {SetProp(1, 2, 0), SetProp(1, 2, 2), UseStrict}, k3 \in StrIdxs, d \in {0, 2}}

\* An aggregate is made in register 1 and aliased into register 2 by Move;
\* a store goes through one of the two registers and a read through one.
AliasPrograms ==
    {<<n, Move(2, 1), LoadConst(0, k), st, gt>> :
         n \in {NewObject(1), NewArray(1)}, k \in ConstIdxs,
         st \in UNION {{SetProp(a, 0, x), SetElem(a, 0, x)} : a \in {1, 2}, x \in {0, 1}},
         gt \in UNION {{GetProp(d, b, 0), GetElem(d, b, 0)} : b \in {1, 2}, d \in Regs}}

\* A loop whose body makes an aggregate in register 1, stores into it and
\* keeps it in register 2; the jump at position 4 leads back to position 1.
LoopPrograms ==
    {<<LoadConst(0, k), n, st, Move(2, 1), Jmp(0 - 4)>> :
         k \in ConstIdxs, n \in {NewObject(1), NewArray(1)},
         st \in UNION {{SetProp(1, 0, x), SetElem(1, 0, x)} : x \in Regs}}

\* The caller writes variable x of its scope, calls the body at positions
\* 5 .. 7, which reads x and writes variable y of its own scope, and reads x
\* again after the Return; the jump at position 4 leads past the body.
ScopePrograms ==
    UNION {{<<Closure(1, 4), w, Call(1, 0), GetScope(2, x), Jmp(3), GetScope(0, x), b,
              Return(0, 0)>> :
                w \in {SetScope(x, 1), DeclareVar(x), UseStrict},
                b \in {SetScope(y, r) : y \in 0 .. MaxVar, r \in Regs}
                        \cup {DeclareVar(y) : y \in 0 .. MaxVar}} : x \in 0 .. MaxVar}

\* A pool of Numbers: integers of both signs, a fraction, an infinity and NaN.
NumberPool ==
    <<Number(0), Number(1), Number(0 - 1), Number(2), Number(3),
      NumberF64(Ratio(3, 2)), NumberF64(Inf), NumberF64(NaN)>>

NumIdxs == 0 .. (Len(NumberPool) - 1)

\* The constants of NumberPool that F64Pow takes as an exponent.
PowIdxs == {i \in NumIdxs : NumberPool[i + 1].v[2] <= 1}

\* Two Numbers are loaded into registers 1 and 2 and one arithmetic
\* instruction is applied to them, or to register 1 twice.
ArithPrograms ==
    {<<LoadConst(1, i), LoadConst(2, j), o>> :
         i \in NumIdxs, j \in NumIdxs,
         o \in UNION {{Add(d, 1, b), Sub(d, 1, b), Mul(d, 1, b), Div(d, 1, b), Mod(d, 1, b),
                       Neg(d, b)} : d \in Regs, b \in {1, 2}}}
        \cup {<<LoadConst(1, i), LoadConst(2, j), Pow(d, 1, 2)>> :
                  i \in NumIdxs, j \in PowIdxs, d \in Regs}

\* An element of a new Array is stored at one index (the Array itself or the
\* index being the Value), then an element is stored or read at a second index.
ElemPrograms ==
    {<<NewArray(1), LoadConst(2, i), SetElem(1, 2, x), LoadConst(0, j), o>> :
         i \in NumIdxs, j \in NumIdxs, x \in {1, 2},
         o \in {SetElem(1, 0, y) : y \in Regs} \cup {GetElem(d, 1, 0) : d \in Regs}}

\* Register 0 is loaded with a Boolean; a function is declared at position 1
\* and its body follows at positions 2 .. 4: a JmpIf that leads past the body
\* when register 0 holds Boolean(true), one instruction, and the Return; then
\* register 0 is set to Boolean(false) and register c is called.
DeclarePrograms ==
    {<<LoadBool(0, g), DeclareFunc(d, nm, n), JmpIf(0, 2), b, Return(0, 0),
       LoadBool(0, FALSE), Call(c, 0), UseStrict>> :
         g \in BOOLEAN, d \in Regs, nm \in 0 .. MaxVar, n \in {0, MaxArg},
         b \in {UseStrict, SetScope(0, 0), DeclareVar(0)}, c \in Regs}

\* The indices of scope variables: one and two decimal digits.
VarIdxs == (0 .. MaxVar) \cup {10 + x : x \in 0 .. MaxVar}

\* Register 1 is loaded with a constant and register 2 with a Boolean;
\* variable i is set from register 1, a variable j is set from register 2 or
\* declared (or neither), then a variable k is read.
VarPrograms ==
    {<<LoadConst(1, c), LoadBool(2, TRUE), SetScope(i, 1), w, GetScope(d, k)>> :
         c \in {0, 2}, i \in VarIdxs,
         w \in {SetScope(j, 2) : j \in VarIdxs} \cup {DeclareVar(j) : j \in VarIdxs}
                 \cup {UseStrict},
         d \in Regs, k \in VarIdxs}

\* Two functions and the code that calls them: the body at positions 1 .. 2
\* calls register c and returns, the body at position 3 returns; the code at
\* positions 4 .. 7, entered by the jump at position 0, makes the two
\* Functions, calls the first, and ends with one more instruction.
NestPrograms ==
    {<<Jmp(3), Call(c, 0), r1, r2, Closure(1, 0), Closure(2, 2), Call(1, 0), x>> :
         c \in {1, 2}, r1 \in Returns, r2 \in Returns,
         x \in {UseStrict, Return(0, 0), Call(1, 0)}}

\* The programs and constant pools of the crate's tests: test_move, test_add,
\* test_sub, test_mul, test_div, test_mod and test_neg.
TestInputs ==
    {[program |-> <<LoadConst(0, 0), Move(1, 0)>>, constants |-> <<Number(10)>>],
     [program |-> <<LoadConst(0, 0), LoadConst(1, 1), Add(2, 0, 1)>>,
      constants |-> <<Number(5), Number(7)>>],
     [program |-> <<LoadConst(0, 0), LoadConst(1, 1), Sub(2, 0, 1)>>,
      constants |-> <<Number(10), Number(3)>>],
     [program |-> <<LoadConst(0, 0), LoadConst(1, 1), Mul(2, 0, 1)>>,
      constants |-> <<Number(4), Number(3)>>],
     [program |-> <<LoadConst(0, 0), LoadConst(1, 1), Div(2, 0, 1)>>,
      constants |-> <<Number(8), Number(2)>>],
     [program |-> <<LoadConst(0, 0), LoadConst(1, 1), Mod(2, 0, 1)>>,
      constants |-> <<Number(10), Number(3)>>],
     [program |-> <<LoadConst(0, 0), Neg(1, 0)>>, constants |-> <<Number(5)>>]}

\* The arguments of VM::new: a program with its constant pool.
Inputs ==
    {[program |-> p, constants |-> ConstPool] :
         p \in Programs \cup OperandPrograms \cup PropPrograms \cup AliasPrograms
                 \cup LoopPrograms \cup ScopePrograms \cup DeclarePrograms
                 \cup VarPrograms \cup NestPrograms}
        \cup {[program |-> p, constants |-> NumberPool] : p \in ArithPrograms \cup ElemPrograms}
        \cup TestInputs

(***************************************************************************)
(* VM::new                                                                 *)
(***************************************************************************)
EmptyMap == <<>>

NoInstruction ==
    [at |-> 0, ins |-> [op |-> "None"], registers |-> [r \in Regs |-> Undefined],
     call_stack |-> <<>>, scopes |-> <<EmptyMap>>, heap |-> <<>>, call_scopes |-> <<>>]

Init ==
    /\ \E input \in Inputs :
           /\ program = input.program
           /\ constants = input.constants
    /\ registers = [r \in Regs |-> Undefined]
    /\ pc = 0
    /\ call_stack = <<>>
    /\ scopes = <<EmptyMap>>
    /\ heap = <<>>
    /\ strict_mode = FALSE
    /\ status = "running"
    /\ last = NoInstruction
    /\ stored = <<>>
    /\ call_scopes = <<>>
    /\ slots = <<EmptyMap>>

(***************************************************************************)
(* VM::run: the loop condition, the fetch and the increment.               *)
(***************************************************************************)
\* `self.pc < self.program.len()` on the usize the model's pc stands for.
InProgram(p) == p >= 0 /\ p < Len(program)

Running == status = "running" /\ InProgram(pc)

Fetch == program[pc + 1]

\* `self.pc += 1` applied to the counter npc that execute left.  At usize::MAX
\* the addition overflows: a panic where overflow checks are compiled in (the
\* debug profile), a wrap to 0 where they are not (the release profile).
Increment(npc) ==
    \/ /\ npc # -1
       /\ pc' = npc + 1
       /\ status' = "running"
    \/ /\ npc = -1
       /\ \/ pc' = npc /\ status' = "panicked"
          \/ pc' = 0 /\ status' = "running"

\* run dispatches the fetched instruction to execute.
Dispatch(opname) ==
    /\ Running
    /\ Fetch.op = opname
    /\ last' = [at |-> pc, ins |-> Fetch, registers |-> registers,
                call_stack |-> call_stack, scopes |-> scopes, heap |-> heap,
                call_scopes |-> call_scopes]

\* A panic unwinds out of execute and run: the counter is not incremented.
Panic == pc' = pc /\ status' = "panicked"

\* The entry of stored for a completed store into aggregate a.
Store(a, k, x) == [agg |-> a, key |-> k, value |-> x]

\* A variant of MapInsert: the map is replaced by the one entry.
MapInsertAlone(m, k, x) == [y \in {k} |-> x]

MapInsert(m, k, x) == [y \in (DOMAIN m) \cup {k} |-> IF y = k THEN x ELSE m[y]]

\* The decimal digits of a u32, most significant first, as `{}` formats it.
Digits(n) ==
    LET len == CHOOSE k \in 1 .. 10 :
                   /\ n \div (10 ^ (k - 1)) < 10
                   /\ (k = 1 \/ n \div (10 ^ (k - 1)) > 0)
    IN  [i \in 1 .. len |-> (n \div (10 ^ (len - i))) % 10]

\* A variant of VarKey: only the last digit of the index is formatted.
VarKeyLastDigit(var_idx) == <<"var_">> \o <<var_idx % 10>>

\* format!("var_{}", var_idx): the String "var_" followed by the digits.
VarKey(var_idx) == <<"var_">> \o Digits(var_idx)

(***************************************************************************)
(* VM::execute, one action per Instruction variant.                        *)
(***************************************************************************)
ExecLoadConst ==
    /\ Dispatch("LoadConst")
    /\ IF Fetch.const_idx < Len(constants)
       THEN /\ registers' = [registers EXCEPT ![Fetch.reg] = constants[Fetch.const_idx + 1]]
            /\ Increment(pc)
       ELSE /\ Panic
            /\ UNCHANGED registers
    /\ UNCHANGED <<program, constants, slots, call_scopes, stored, call_stack, scopes, heap, strict_mode>>

ExecLoadUndefined ==
    /\ Dispatch("LoadUndefined")
    /\ registers' = [registers EXCEPT ![Fetch.reg] = Undefined]
    /\ Increment(pc)
    /\ UNCHANGED <<program, constants, slots, call_scopes, stored, call_stack, scopes, heap, strict_mode>>

ExecLoadNull ==
    /\ Dispatch("LoadNull")
    /\ registers' = [registers EXCEPT ![Fetch.reg] = Null]
    /\ Increment(pc)
    /\ UNCHANGED <<program, constants, slots, call_scopes, stored, call_stack, scopes, heap, strict_mode>>

ExecLoadBool ==
    /\ Dispatch("LoadBool")
    /\ registers' = [registers EXCEPT ![Fetch.reg] = Boolean(Fetch.value)]
    /\ Increment(pc)
    /\ UNCHANGED <<program, constants, slots, call_scopes, stored, call_stack, scopes, heap, strict_mode>>

ExecMove ==
    /\ Dispatch("Move")
    /\ registers' = [registers EXCEPT ![Fetch.dst] = registers[Fetch.src]]
    /\ Increment(pc)
    /\ UNCHANGED <<program, constants, slots, call_scopes, stored, call_stack, scopes, heap, strict_mode>>

\* VM::binary_op matches on the two operand registers: both hold Number, or
\* panic!("Invalid types for binary operation").
NumberOperands(a, b) == registers[a].t = "Number" /\ registers[b].t = "Number"

\* A variant of binary_op: the closure is applied to (y, x).
binary_op_swapped(a, b, opname) ==
    LET x == registers[b].v
        y == registers[a].v
    IN  NumberF64(CASE opname = "Add" -> F64Add(x, y)
                    [] opname = "Sub" -> F64Sub(x, y)
                    [] opname = "Mul" -> F64Mul(x, y)
                    [] opname = "Div" -> F64Div(x, y)
                    [] opname = "Mod" -> F64Rem(x, y)
                    [] opname = "Pow" -> F64Pow(x, y))

\* VM::binary_op on two Numbers, with the closure each arithmetic arm passes it.
binary_op(a, b, opname) ==
    LET x == registers[a].v
        y == registers[b].v
    IN  NumberF64(CASE opname = "Add" -> F64Add(x, y)
                    [] opname = "Sub" -> F64Sub(x, y)
                    [] opname = "Mul" -> F64Mul(x, y)
                    [] opname = "Div" -> F64Div(x, y)
                    [] opname = "Mod" -> F64Rem(x, y)
                    [] opname = "Pow" -> F64Pow(x, y))

\* The six arithmetic arms: binary_op's result, computed first, is written to
\* registers[dst]; a panic in binary_op leaves the registers as they were.
ExecAdd ==
    /\ Dispatch("Add")
    /\ IF NumberOperands(Fetch.a, Fetch.b)
       THEN /\ registers' = [registers EXCEPT ![Fetch.dst] = binary_op(Fetch.a, Fetch.b, "Add")]
            /\ Increment(pc)
       ELSE /\ Panic
            /\ UNCHANGED registers
    /\ UNCHANGED <<program, constants, slots, call_scopes, stored, call_stack, scopes, heap, strict_mode>>

ExecSub ==
    /\ Dispatch("Sub")
    /\ IF NumberOperands(Fetch.a, Fetch.b)
       THEN /\ registers' = [registers EXCEPT ![Fetch.dst] = binary_op(Fetch.a, Fetch.b, "Sub")]
            /\ Increment(pc)
       ELSE /\ Panic
            /\ UNCHANGED registers
    /\ UNCHANGED <<program, constants, slots, call_scopes, stored, call_stack, scopes, heap, strict_mode>>

ExecMul ==
    /\ Dispatch("Mul")
    /\ IF NumberOperands(Fetch.a, Fetch.b)
       THEN /\ registers' = [registers EXCEPT ![Fetch.dst] = binary_op(Fetch.a, Fetch.b, "Mul")]
            /\ Increment(pc)
       ELSE /\ Panic
            /\ UNCHANGED registers
    /\ UNCHANGED <<program, constants, slots, call_scopes, stored, call_stack, scopes, heap, strict_mode>>

ExecDiv ==
    /\ Dispatch("Div")
    /\ IF NumberOperands(Fetch.a, Fetch.b)
       THEN /\ registers' = [registers EXCEPT ![Fetch.dst] = binary_op(Fetch.a, Fetch.b, "Div")]
            /\ Increment(pc)
       ELSE /\ Panic
            /\ UNCHANGED registers
    /\ UNCHANGED <<program, constants, slots, call_scopes, stored, call_stack, scopes, heap, strict_mode>>

ExecMod ==
    /\ Dispatch("Mod")
    /\ IF NumberOperands(Fetch.a, Fetch.b)
       THEN /\ registers' = [registers EXCEPT ![Fetch.dst] = binary_op(Fetch.a, Fetch.b, "Mod")]
            /\ Increment(pc)
       ELSE /\ Panic
            /\ UNCHANGED registers
    /\ UNCHANGED <<program, constants, slots, call_scopes, stored, call_stack, scopes, heap, strict_mode>>

ExecPow ==
    /\ Dispatch("Pow")
    /\ IF NumberOperands(Fetch.a, Fetch.b)
       THEN /\ registers' = [registers EXCEPT ![Fetch.dst] = binary_op(Fetch.a, Fetch.b, "Pow")]
            /\ Increment(pc)
       ELSE /\ Panic
            /\ UNCHANGED registers
    /\ UNCHANGED <<program, constants, slots, call_scopes, stored, call_stack, scopes, heap, strict_mode>>

\* A variant of ExecNeg: a non-Number operand is coerced, the result is NaN
\* and the run goes on.
ExecNegCoerces ==
    /\ Dispatch("Neg")
    /\ registers' = [registers EXCEPT ![Fetch.dst] =
                          IF registers[Fetch.a].t = "Number"
                          THEN NumberF64(F64Neg(registers[Fetch.a].v))
                          ELSE NumberF64(NaN)]
    /\ Increment(pc)
    /\ UNCHANGED <<program, constants, slots, call_scopes, stored, call_stack, scopes, heap, strict_mode>>

ExecNeg ==
    /\ Dispatch("Neg")
    /\ IF registers[Fetch.a].t = "Number"
       THEN /\ registers' = [registers EXCEPT ![Fetch.dst] = NumberF64(F64Neg(registers[Fetch.a].v))]
            /\ Increment(pc)
       ELSE /\ Panic
            /\ UNCHANGED registers
    /\ UNCHANGED <<program, constants, slots, call_scopes, stored, call_stack, scopes, heap, strict_mode>>

\* VM::compare with the closure each comparison arm passes it: |x, y| x == y
\* for Eq, |x, y| x < y for Lt, |x, y| x <= y for Le, applied to the Values
\* registers a and b hold.
compare(a, b, opname) ==
    CASE opname = "Eq" -> ValueEq(registers[a], registers[b])
      [] opname = "Lt" -> ValueLt(registers[a], registers[b])
      [] opname = "Le" -> ValueLe(registers[a], registers[b])

\* The three comparison arms: the Boolean that goes to registers[0].
CompareResult(ins) == compare(ins.a, ins.b, ins.op)

\* A variant of CompareDst: the result goes to the first operand register.
CompareDstOperand(ins) == ins.a

\* The register the comparison arms write.
CompareDst(ins) == 0

ExecEq ==
    /\ Dispatch("Eq")
    /\ registers' = [registers EXCEPT ![CompareDst(Fetch)] = Boolean(CompareResult(Fetch))]
    /\ Increment(pc)
    /\ UNCHANGED <<program, constants, slots, call_scopes, stored, call_stack, scopes, heap, strict_mode>>

ExecLt ==
    /\ Dispatch("Lt")
    /\ registers' = [registers EXCEPT ![CompareDst(Fetch)] = Boolean(CompareResult(Fetch))]
    /\ Increment(pc)
    /\ UNCHANGED <<program, constants, slots, call_scopes, stored, call_stack, scopes, heap, strict_mode>>

ExecLe ==
    /\ Dispatch("Le")
    /\ registers' = [registers EXCEPT ![CompareDst(Fetch)] = Boolean(CompareResult(Fetch))]
    /\ Increment(pc)
    /\ UNCHANGED <<program, constants, slots, call_scopes, stored, call_stack, scopes, heap, strict_mode>>

\* A variant of JumpTarget: the offset taken as an absolute position.
JumpTargetAbsolute(p, offset) == offset

\* `(self.pc as i32 + offset) as usize`, a negative sum standing for its cast.
JumpTarget(p, offset) == p + offset

\* A variant of CondHolds: JavaScript truthiness.
CondHoldsTruthy(x) == x \notin {Boolean(FALSE), Undefined, Null, Number(0)}

\* `if let Value::Boolean(true) = self.registers[cond]`
CondHolds(x) == x = Boolean(TRUE)

ExecJmp ==
    /\ Dispatch("Jmp")
    /\ Increment(JumpTarget(pc, Fetch.offset))
    /\ UNCHANGED <<program, constants, slots, call_scopes, stored, registers, call_stack, scopes, heap, strict_mode>>

ExecJmpIf ==
    /\ Dispatch("JmpIf")
    /\ IF CondHolds(registers[Fetch.cond])
       THEN Increment(JumpTarget(pc, Fetch.offset))
       ELSE Increment(pc)
    /\ UNCHANGED <<program, constants, slots, call_scopes, stored, registers, call_stack, scopes, heap, strict_mode>>

\* A variant of CallScope: the new scope starts as a copy of the caller's.
CallScopeInherited == scopes[Len(scopes)]

\* What Call pushes on scopes.
CallScope == EmptyMap

\* A variant of ExecCall: the callee runs in the caller's scope.
ExecCallInCallerScope ==
    /\ Dispatch("Call")
    /\ IF registers[Fetch.func_reg].t = "Function"
       THEN /\ Len(call_stack) < MaxDepth
            /\ call_stack' = Append(call_stack, pc)
            /\ call_scopes' = Append(call_scopes, scopes)
            /\ slots' = Append(slots, EmptyMap)
            /\ Increment(registers[Fetch.func_reg].v)
       ELSE /\ Panic
            /\ UNCHANGED <<call_stack, call_scopes, slots>>
    /\ UNCHANGED <<program, constants, stored, registers, scopes, heap, strict_mode>>

ExecCall ==
    /\ Dispatch("Call")
    /\ IF registers[Fetch.func_reg].t = "Function"
       THEN /\ Len(call_stack) < MaxDepth
            /\ call_stack' = Append(call_stack, pc)
            /\ call_scopes' = Append(call_scopes, scopes)
            /\ slots' = Append(slots, EmptyMap)
            /\ scopes' = Append(scopes, CallScope)
            /\ Increment(registers[Fetch.func_reg].v)
       ELSE /\ Panic
            /\ UNCHANGED <<call_stack, call_scopes, scopes, slots>>
    /\ UNCHANGED <<program, constants, stored, registers, heap, strict_mode>>

\* Vec::pop: the Vec without its last element (an empty Vec stays empty).
Pop(s) == IF s = <<>> THEN s ELSE SubSeq(s, 1, Len(s) - 1)

\* The counter Return restores: the entry call_stack.pop() returned.
ReturnAddr == call_stack[Len(call_stack)]

\* A variant of ReturnScopes: the callee's scope is left on the stack.
ReturnScopesKept == scopes

\* What Return leaves on scopes.
ReturnScopes == Pop(scopes)

\* A variant of ExecReturn: the scope is popped before the call stack is looked at.
ExecReturnPopsFirst ==
    /\ Dispatch("Return")
    /\ scopes' = Pop(scopes)
    /\ call_scopes' = Pop(call_scopes)
    /\ slots' = Pop(slots)
    /\ IF call_stack # <<>>
       THEN /\ call_stack' = Pop(call_stack)
            /\ Increment(ReturnAddr)
       ELSE /\ Panic
            /\ UNCHANGED call_stack
    /\ UNCHANGED <<program, constants, stored, registers, heap, strict_mode>>

\* A variant of ExecReturn: count > 0 copies registers[start_reg] to register 0.
ExecReturnCopiesValue ==
    /\ Dispatch("Return")
    /\ IF call_stack # <<>>
       THEN /\ call_stack' = Pop(call_stack)
            /\ scopes' = Pop(scopes)
            /\ registers' = IF Fetch.count > 0
                             THEN [registers EXCEPT ![0] = registers[Fetch.start_reg]]
                             ELSE registers
            /\ Increment(ReturnAddr)
       ELSE /\ Panic
            /\ UNCHANGED <<call_stack, scopes, registers>>
    /\ call_scopes' = Pop(call_scopes)
    /\ slots' = (IF call_stack # <<>> THEN Pop(slots) ELSE slots)
    /\ UNCHANGED <<program, constants, stored, heap, strict_mode>>

\* A variant of ExecReturn: the oldest entry of the call stack is taken.
ExecReturnTakesOldest ==
    /\ Dispatch("Return")
    /\ IF call_stack # <<>>
       THEN /\ call_stack' = Tail(call_stack)
            /\ call_scopes' = Pop(call_scopes)
            /\ slots' = Pop(slots)
            /\ scopes' = ReturnScopes
            /\ Increment(call_stack[1])
       ELSE /\ Panic
            /\ UNCHANGED <<call_stack, call_scopes, scopes, slots>>
    /\ UNCHANGED <<program, constants, stored, registers, heap, strict_mode>>

ExecReturn ==
    /\ Dispatch("Return")
    /\ IF call_stack # <<>>
       THEN /\ call_stack' = Pop(call_stack)
            /\ call_scopes' = Pop(call_scopes)
            /\ slots' = Pop(slots)
            /\ scopes' = ReturnScopes
            /\ Increment(ReturnAddr)
       ELSE /\ Panic
            /\ UNCHANGED <<call_stack, call_scopes, scopes, slots>>
    /\ UNCHANGED <<program, constants, stored, registers, heap, strict_mode>>

\* A variant of ExecNewObject: while register 2 holds an Object, that Object
\* is handed out again instead of a new one.
ExecNewObjectPooled ==
    /\ Dispatch("NewObject")
    /\ Len(heap) < MaxHeap
    /\ IF registers[2].t = "Object"
       THEN /\ heap' = heap
            /\ registers' = [registers EXCEPT ![Fetch.reg] = registers[2]]
       ELSE /\ heap' = Append(heap, EmptyMap)
            /\ registers' = [registers EXCEPT ![Fetch.reg] = Object(Len(heap) + 1)]
    /\ Increment(pc)
    /\ UNCHANGED <<program, constants, slots, call_scopes, stored, call_stack, scopes, strict_mode>>

\* Rc::new(RefCell::new(..)): a new allocation, at an address no live Rc has.
ExecNewObject ==
    /\ Dispatch("NewObject")
    /\ Len(heap) < MaxHeap
    /\ heap' = Append(heap, EmptyMap)
    /\ registers' = [registers EXCEPT ![Fetch.reg] = Object(Len(heap) + 1)]
    /\ Increment(pc)
    /\ UNCHANGED <<program, constants, slots, call_scopes, stored, call_stack, scopes, strict_mode>>

\* insert on the HashMap behind the Rc: every register, slot and scope entry
\* holding that address sees it.
ExecSetProp ==
    /\ Dispatch("SetProp")
    /\ IF registers[Fetch.obj].t = "Object" /\ registers[Fetch.key].t = "String"
       THEN /\ heap' = [heap EXCEPT ![registers[Fetch.obj].v] =
                            MapInsert(@, registers[Fetch.key].v, registers[Fetch.value])]
            /\ stored' = Append(stored, Store(registers[Fetch.obj].v, registers[Fetch.key].v,
                                               registers[Fetch.value]))
            /\ Increment(pc)
       ELSE /\ Panic
            /\ UNCHANGED <<heap, stored>>
    /\ UNCHANGED <<program, constants, slots, call_scopes, registers, call_stack, scopes, strict_mode>>

ExecNewArray ==
    /\ Dispatch("NewArray")
    /\ Len(heap) < MaxHeap
    /\ heap' = Append(heap, <<>>)
    /\ registers' = [registers EXCEPT ![Fetch.reg] = Array(Len(heap) + 1)]
    /\ Increment(pc)
    /\ UNCHANGED <<program, constants, slots, call_scopes, stored, call_stack, scopes, strict_mode>>

ExecClosure ==
    /\ Dispatch("Closure")
    /\ registers' = [registers EXCEPT ![Fetch.reg] = Function(Fetch.func_idx)]
    /\ Increment(pc)
    /\ UNCHANGED <<program, constants, slots, call_scopes, stored, call_stack, scopes, heap, strict_mode>>

\* scopes.last() is None on an empty Vec: panic!("No active scope").
ExecSetScope ==
    /\ Dispatch("SetScope")
    /\ IF scopes # <<>>
       THEN /\ scopes' = [scopes EXCEPT ![Len(scopes)] =
                              MapInsert(@, VarKey(Fetch.var_idx), registers[Fetch.src])]
            /\ slots' = [slots EXCEPT ![Len(slots)] =
                             MapInsert(@, Fetch.var_idx, registers[Fetch.src])]
            /\ Increment(pc)
       ELSE /\ Panic
            /\ UNCHANGED <<scopes, slots>>
    /\ UNCHANGED <<program, constants, call_scopes, stored, registers, call_stack, heap, strict_mode>>

\* A variant of ExecDeclareFunc: the function is also bound, under its
\* name_idx, in the scope on top of the stack.
ExecDeclareFuncBindsName ==
    /\ Dispatch("DeclareFunc")
    /\ registers' = [registers EXCEPT ![Fetch.reg] = Function(pc)]
    /\ scopes' = [scopes EXCEPT ![Len(scopes)] =
                      MapInsert(@, VarKey(Fetch.name_idx), Function(pc))]
    /\ Increment(pc)
    /\ UNCHANGED <<program, constants, slots, call_scopes, stored, call_stack, heap, strict_mode>>

\* A variant of ExecDeclareFunc: the Function names the position after the
\* DeclareFunc, where the body starts.
ExecDeclareFuncPointsAtBody ==
    /\ Dispatch("DeclareFunc")
    /\ registers' = [registers EXCEPT ![Fetch.reg] = Function(pc + 1)]
    /\ Increment(pc)
    /\ UNCHANGED <<program, constants, slots, call_scopes, stored, call_stack, scopes, heap, strict_mode>>

ExecDeclareFunc ==
    /\ Dispatch("DeclareFunc")
    /\ registers' = [registers EXCEPT ![Fetch.reg] = Function(pc)]
    /\ Increment(pc)
    /\ UNCHANGED <<program, constants, slots, call_scopes, stored, call_stack, scopes, heap, strict_mode>>

\* HashMap::get(key).unwrap_or(&Value::Undefined)
MapGet(m, k) == IF k \in DOMAIN m THEN m[k] ELSE Undefined

ExecGetProp ==
    /\ Dispatch("GetProp")
    /\ IF registers[Fetch.obj].t = "Object" /\ registers[Fetch.key].t = "String"
       THEN /\ registers' = [registers EXCEPT ![Fetch.dst] =
                                  MapGet(heap[registers[Fetch.obj].v], registers[Fetch.key].v)]
            /\ Increment(pc)
       ELSE /\ Panic
            /\ UNCHANGED registers
    /\ UNCHANGED <<program, constants, slots, call_scopes, stored, call_stack, scopes, heap, strict_mode>>

\* A variant of ExecGetScope: a variable the top scope does not hold is looked
\* up in the scopes below it, the nearest first.
ExecGetScopeChained ==
    /\ Dispatch("GetScope")
    /\ LET holders == {n \in 1 .. Len(scopes) : VarKey(Fetch.var_idx) \in DOMAIN scopes[n]}
       IN  registers' = [registers EXCEPT ![Fetch.dst] =
                             IF holders = {} THEN Undefined
                             ELSE scopes[CHOOSE n \in holders : \A o \in holders : o <= n]
                                        [VarKey(Fetch.var_idx)]]
    /\ Increment(pc)
    /\ UNCHANGED <<program, constants, slots, call_scopes, stored, call_stack, scopes, heap, strict_mode>>

\* scopes.last() is None on an empty Vec: panic!("No active scope").
ExecGetScope ==
    /\ Dispatch("GetScope")
    /\ IF scopes # <<>>
       THEN /\ registers' = [registers EXCEPT ![Fetch.dst] =
                                  MapGet(scopes[Len(scopes)], VarKey(Fetch.var_idx))]
            /\ Increment(pc)
       ELSE /\ Panic
            /\ UNCHANGED registers
    /\ UNCHANGED <<program, constants, slots, call_scopes, stored, call_stack, scopes, heap, strict_mode>>

\* Vec::get(idx).unwrap_or(&Value::Undefined), idx a usize (-1 is usize::MAX).
VecGet(vec, idx) == IF idx >= 0 /\ idx < Len(vec) THEN vec[idx + 1] ELSE Undefined

ExecGetElem ==
    /\ Dispatch("GetElem")
    /\ IF registers[Fetch.array].t = "Array" /\ registers[Fetch.index].t = "Number"
       THEN /\ registers' = [registers EXCEPT ![Fetch.dst] =
                                  VecGet(heap[registers[Fetch.array].v],
                                         FloorAsUsize(registers[Fetch.index].v))]
            /\ Increment(pc)
       ELSE /\ Panic
            /\ UNCHANGED registers
    /\ UNCHANGED <<program, constants, slots, call_scopes, stored, call_stack, scopes, heap, strict_mode>>

\* Vec::resize(new_len, Value::Undefined): truncates, or appends Undefined.
VecResize(vec, new_len) ==
    [i \in 1 .. new_len |-> IF i <= Len(vec) THEN vec[i] ELSE Undefined]

\* A variant of VecSet: a write past the end appends the Value.
VecSetPush(vec, idx, x) ==
    IF idx >= Len(vec) THEN Append(vec, x) ELSE [vec EXCEPT ![idx + 1] = x]

\* `if idx >= len { resize(idx + 1, Undefined) }; arr_ref[idx] = value`
VecSet(vec, idx, x) ==
    [(IF idx >= Len(vec) THEN VecResize(vec, idx + 1) ELSE vec) EXCEPT ![idx + 1] = x]

\* At idx = usize::MAX the sum idx + 1 overflows: a panic where overflow
\* checks are compiled in; where they are not, it wraps to 0, resize(0) empties
\* the Vec and the indexing that follows panics on the bounds check.
ExecSetElem ==
    /\ Dispatch("SetElem")
    /\ IF registers[Fetch.array].t = "Array" /\ registers[Fetch.index].t = "Number"
       THEN LET arr == registers[Fetch.array].v
                idx == FloorAsUsize(registers[Fetch.index].v)
            IN  IF idx # -1
                THEN /\ heap' = [heap EXCEPT ![arr] = VecSet(@, idx, registers[Fetch.value])]
                     /\ stored' = Append(stored, Store(arr, idx, registers[Fetch.value]))
                     /\ Increment(pc)
                ELSE /\ Panic
                     /\ \/ heap' = heap
                        \/ heap' = [heap EXCEPT ![arr] = VecResize(@, 0)]
                     /\ UNCHANGED stored
       ELSE /\ Panic
            /\ UNCHANGED <<heap, stored>>
    /\ UNCHANGED <<program, constants, slots, call_scopes, registers, call_stack, scopes, strict_mode>>

\* A variant of TypeTag: Null has a tag of its own.
TypeTagNull(x) ==
    CASE x.t = "Undefined" -> "undefined"
      [] x.t = "Null" -> "null"
      [] x.t = "Boolean" -> "boolean"
      [] x.t = "Number" -> "number"
      [] x.t = "String" -> "string"
      [] x.t = "Object" -> "object"
      [] x.t = "Array" -> "object"
      [] x.t = "Function" -> "function"

\* The String TypeOf makes of each variant.
TypeTag(x) ==
    CASE x.t = "Undefined" -> "undefined"
      [] x.t = "Null" -> "object"
      [] x.t = "Boolean" -> "boolean"
      [] x.t = "Number" -> "number"
      [] x.t = "String" -> "string"
      [] x.t = "Object" -> "object"
      [] x.t = "Array" -> "object"
      [] x.t = "Function" -> "function"

ExecTypeOf ==
    /\ Dispatch("TypeOf")
    /\ registers' = [registers EXCEPT ![Fetch.dst] = String(TypeTag(registers[Fetch.src]))]
    /\ Increment(pc)
    /\ UNCHANGED <<program, constants, slots, call_scopes, stored, call_stack, scopes, heap, strict_mode>>

\* A variant of IsInstance: only an Object is an instance.
IsInstanceObject(x, c) == x.t = "Object" /\ c.t = "Function"

\* matches!((obj, ctor), (Object(_), Function(_)) | (Array(_), Function(_)))
IsInstance(x, c) == x.t \in {"Object", "Array"} /\ c.t = "Function"

ExecInstanceOf ==
    /\ Dispatch("InstanceOf")
    /\ registers' = [registers EXCEPT ![Fetch.dst] =
                          Boolean(IsInstance(registers[Fetch.obj], registers[Fetch.ctor]))]
    /\ Increment(pc)
    /\ UNCHANGED <<program, constants, slots, call_scopes, stored, call_stack, scopes, heap, strict_mode>>

ExecDeclareVar ==
    /\ Dispatch("DeclareVar")
    /\ IF scopes # <<>>
       THEN /\ scopes' = [scopes EXCEPT ![Len(scopes)] =
                              MapInsert(@, VarKey(Fetch.name_idx), Undefined)]
            /\ slots' = [slots EXCEPT ![Len(slots)] = MapInsert(@, Fetch.name_idx, Undefined)]
            /\ Increment(pc)
       ELSE /\ Panic
            /\ UNCHANGED <<scopes, slots>>
    /\ UNCHANGED <<program, constants, call_scopes, stored, registers, call_stack, heap, strict_mode>>

ExecUseStrict ==
    /\ Dispatch("UseStrict")
    /\ strict_mode' = TRUE
    /\ Increment(pc)
    /\ UNCHANGED <<program, constants, slots, call_scopes, stored, registers, call_stack, scopes, heap>>

\* The while condition fails: run returns normally.
Halt ==
    /\ status = "running"
    /\ ~InProgram(pc)
    /\ status' = "halted"
    /\ UNCHANGED <<program, constants, slots, call_scopes, stored, registers, pc, call_stack, scopes, heap,
                   strict_mode, last>>

Next ==
    \/ ExecLoadConst
    \/ ExecLoadUndefined
    \/ ExecLoadNull
    \/ ExecLoadBool
    \/ ExecMove
    \/ ExecAdd
    \/ ExecSub
    \/ ExecMul
    \/ ExecDiv
    \/ ExecMod
    \/ ExecPow
    \/ ExecNeg
    \/ ExecEq
    \/ ExecLt
    \/ ExecLe
    \/ ExecJmp
    \/ ExecJmpIf
    \/ ExecCall
    \/ ExecReturn
    \/ ExecNewObject
    \/ ExecGetProp
    \/ ExecSetProp
    \/ ExecClosure
    \/ ExecGetScope
    \/ ExecSetScope
    \/ ExecNewArray
    \/ ExecGetElem
    \/ ExecSetElem
    \/ ExecTypeOf
    \/ ExecInstanceOf
    \/ ExecDeclareFunc
    \/ ExecDeclareVar
    \/ ExecUseStrict
    \/ Halt

Spec == Init /\ [][Next]_vars

(***************************************************************************)
(* Properties.  Each is a predicate of a state: it relates the state the   *)
(* instruction last executed left to the state last recorded before it.    *)
(***************************************************************************)
Front(q) == SubSeq(q, 1, Len(q) - 1)

\* The instruction last executed was a Jmp, or a JmpIf whose condition
\* register held Boolean(true).
LastJumpTaken ==
    \/ last.ins.op = "Jmp"
    \/ last.ins.op = "JmpIf" /\ last.registers[last.ins.cond] = Boolean(TRUE)

\* C1 as stated: after a Jmp at p with offset k, or a JmpIf at p with offset k
\* whose condition is Boolean(true), the program counter is p + k: the next
\* fetch is at p + k, with no further increment.
C1_JumpLandsOnTarget ==
    LastJumpTaken => pc = last.at + last.ins.offset

\* C1 amended: after a Jmp at p with offset k, or a JmpIf at p with offset k
\* whose condition is Boolean(true), with p + k >= 0, the program counter is
\* p + k + 1 and no fault was raised: the loop's increment follows the jump too.
C1_JumpLandsAfterTarget ==
    (LastJumpTaken /\ last.at + last.ins.offset >= 0)
        => (pc = last.at + last.ins.offset + 1 /\ status # "panicked")

\* C1 witness: a JmpIf with offset 1 was taken at position 1 and the counter
\* is 3, a position of the program.
C1_Witness ==
    /\ last.ins.op = "JmpIf"
    /\ last.registers[last.ins.cond] = Boolean(TRUE)
    /\ last.ins.offset = 1
    /\ last.at = 1
    /\ pc = 3
    /\ Running

\* The instruction last executed was a Call on a register holding a Function.
LastCallOnFunction ==
    /\ last.ins.op = "Call"
    /\ last.registers[last.ins.func_reg].t = "Function"

\* C2 as stated: a Call at p on Function(f) pushes p on the call stack, pushes
\* one empty scope and leaves the counter at f: the next fetch is at f.
C2_CallLandsOnOffset ==
    LastCallOnFunction
        => /\ call_stack = Append(last.call_stack, last.at)
           /\ scopes = Append(last.scopes, <<>>)
           /\ pc = last.registers[last.ins.func_reg].v

\* C2 amended: a Call at p on Function(f) pushes p on the call stack, pushes
\* one empty scope and leaves the counter at f + 1: the next fetch is at f + 1.
C2_CallLandsAfterOffset ==
    LastCallOnFunction
        => /\ call_stack = Append(last.call_stack, last.at)
           /\ scopes = Append(last.scopes, <<>>)
           /\ pc = last.registers[last.ins.func_reg].v + 1
           /\ status # "panicked"

\* C2 witness: a Call at position 2 on Function(2) was executed from a global
\* scope that holds a variable; the counter is 3 and the new scope is empty.
C2_Witness ==
    /\ last.ins.op = "Call"
    /\ last.at = 2
    /\ last.registers[last.ins.func_reg] = Function(2)
    /\ call_stack = <<2>>
    /\ Len(scopes) = 2
    /\ scopes[1] # <<>>
    /\ scopes[2] = <<>>
    /\ pc = 3
    /\ Running

\* The instruction last executed was a Return with a non-empty call stack.
LastReturnWithCaller ==
    /\ last.ins.op = "Return"
    /\ last.call_stack # <<>>

\* C3 as stated: a Return with a non-empty call stack pops one call-stack entry
\* and one scope and leaves the counter at the popped entry: the next fetch is
\* at the value the Call pushed.
C3_ReturnLandsOnCall ==
    LastReturnWithCaller
        => /\ call_stack = Front(last.call_stack)
           /\ scopes = Front(last.scopes)
           /\ pc = last.call_stack[Len(last.call_stack)]

\* C3 amended: a Return with a non-empty call stack pops one call-stack entry
\* and one scope and leaves the counter at the popped entry plus one, whatever
\* its start_reg and count are: the next fetch is at the instruction after the
\* Call.
C3_ReturnLandsAfterCall ==
    LastReturnWithCaller
        => /\ call_stack = Front(last.call_stack)
           /\ Len(last.scopes) >= 2
           /\ scopes = Front(last.scopes)
           /\ pc = last.call_stack[Len(last.call_stack)] + 1
           /\ status # "panicked"

\* C3 witness: the Return at position 3, with the greatest start_reg and
\* count, returned from the Call at position 2: both stacks are one level
\* shorter and the counter is 3.
C3_Witness ==
    /\ last.ins = Return(MaxReg, MaxArg)
    /\ last.at = 3
    /\ last.call_stack = <<2>>
    /\ Len(last.scopes) = 2
    /\ program[3].op = "Call"
    /\ call_stack = <<>>
    /\ Len(scopes) = 1
    /\ pc = 3
    /\ status = "running"

\* C4 as stated: after a Jmp or a taken JmpIf at p with offset k where p + k is
\* negative or no position of the program, the run does not end as a normal
\* halt.
C4_InvalidJumpIsFatal ==
    (LastJumpTaken /\ ~InProgram(last.at + last.ins.offset)) => status # "halted"

\* A pair of Values with no defined order: a cross-variant pair, or a pair of
\* Undefined, Null, Object or Array.
Unordered(x, y) == x.t # y.t \/ x.t \in {"Undefined", "Null", "Object", "Array"}

\* C5 as stated: Lt and Le on a pair with no defined order stop the run with a
\* fatal condition and leave the registers as they were.
C5_UnorderedIsFatal ==
    (/\ last.ins.op \in {"Lt", "Le"}
     /\ Unordered(last.registers[last.ins.a], last.registers[last.ins.b]))
        => (status = "panicked" /\ registers = last.registers)

\* The Boolean a comparison yields on the Values x and y.
Compared(opname, x, y) ==
    CASE opname = "Eq" -> x = y
      [] opname = "Lt" -> ValueLt(x, y)
      [] opname = "Le" -> ValueLe(x, y)

\* C6: every Eq, Lt and Le writes its Boolean, computed from the Values its
\* operand registers a and b held before the instruction, into register 0;
\* every other register is unchanged and no fault is raised.
C6_CompareWritesRegisterZero ==
    last.ins.op \in {"Eq", "Lt", "Le"}
        => /\ registers[0] = Boolean(Compared(last.ins.op,
                                               last.registers[last.ins.a],
                                               last.registers[last.ins.b]))
           /\ \A r \in Regs \ {0} : registers[r] = last.registers[r]
           /\ status # "panicked"

\* C6 witness: Lt of register 0, which held Number(0), against register 1,
\* which holds Number(1), left Boolean(true) in register 0: the result
\* overwrote the operand it was computed from.
C6_Witness ==
    /\ last.ins = Lt(0, 1)
    /\ last.registers[0] = Number(0)
    /\ registers[1] = Number(1)
    /\ registers[0] = Boolean(TRUE)
    /\ status = "running"

\* C7: a JmpIf whose condition register holds anything but Boolean(true)
\* changes nothing but the counter, which goes to p + 1, and raises no fault.
C7_JmpIfFallsThrough ==
    (/\ last.ins.op = "JmpIf"
     /\ last.registers[last.ins.cond] # Boolean(TRUE))
        => /\ pc = last.at + 1
           /\ status # "panicked"
           /\ registers = last.registers
           /\ call_stack = last.call_stack
           /\ scopes = last.scopes
           /\ heap = last.heap

\* C7 witness: a JmpIf with offset 2 at position 1 on a register holding
\* Number(0) was not taken: the counter is 2.
C7_Witness ==
    /\ last.ins.op = "JmpIf"
    /\ last.ins.offset = 2
    /\ last.at = 1
    /\ last.registers[last.ins.cond] = Number(0)
    /\ pc = 2
    /\ status = "running"

\* C8: a Return executed with an empty call stack is fatal: the run stops, the
\* counter stays where it was and the scope stack is unchanged.
C8_ReturnWithoutCallIsFatal ==
    (/\ last.ins.op = "Return"
     /\ last.call_stack = <<>>)
        => /\ status = "panicked"
           /\ pc = last.at
           /\ scopes = last.scopes
           /\ call_stack = <<>>

\* C8 witness: the run panicked on the Return at position 3 with an empty call
\* stack, the global scope (holding a variable) still on the scope stack.
C8_Witness ==
    /\ last.ins.op = "Return"
    /\ last.at = 3
    /\ last.call_stack = <<>>
    /\ status = "panicked"
    /\ pc = 3
    /\ call_stack = <<>>
    /\ Len(scopes) = 1
    /\ scopes[1] # <<>>

\* C9: Call and Return leave every register (and every aggregate) as it was,
\* whatever arg_count, start_reg and count are; the scope a Call pushes is
\* empty and the scopes below it are unchanged; a Return only drops the top
\* scope.
C9_CallReturnMoveNoData ==
    last.ins.op \in {"Call", "Return"}
        => /\ registers = last.registers
           /\ heap = last.heap
           /\ (last.ins.op = "Call" /\ status # "panicked")
                  => scopes = Append(last.scopes, <<>>)
           /\ (last.ins.op = "Return" /\ status # "panicked")
                  => scopes = Front(last.scopes)

\* C9 witness: a Return with the greatest start_reg and count returned from a
\* Call with the greatest arg_count while register 1 held a Function and
\* register 2 Boolean(true).
C9_Witness ==
    /\ last.ins = Return(MaxReg, MaxArg)
    /\ last.call_stack = <<2>>
    /\ program[3].op = "Call"
    /\ program[3].arg_count = MaxArg
    /\ last.at = 3
    /\ pc = 3
    /\ status = "running"
    /\ registers[1].t = "Function"
    /\ registers[2] = Boolean(TRUE)
    /\ call_stack = <<>>

\* The instruction last executed was an Eq on two registers holding Objects,
\* or two registers holding Arrays.
LastEqOnAggregates ==
    /\ last.ins.op = "Eq"
    /\ last.registers[last.ins.a].t \in {"Object", "Array"}
    /\ last.registers[last.ins.b].t = last.registers[last.ins.a].t

\* The program makes two aggregates of one kind in two registers, stores
\* nothing or the same key and Value in both, and compares the two registers
\* with its last instruction.
TwoAllocations ==
    /\ program[1].op \in {"NewObject", "NewArray"}
    /\ program[2].op = program[1].op
    /\ program[2].reg # program[1].reg
    /\ program[Len(program)] \in {Eq(program[1].reg, program[2].reg),
                                  Eq(program[2].reg, program[1].reg)}
    /\ \/ Len(program) = 3
       \/ program \in AggregatePrograms

\* The program makes one aggregate, aliases it into another register by Move
\* and compares the two registers.
OneAllocationAliased ==
    /\ program[1].op \in {"NewObject", "NewArray"}
    /\ program[2].op = "Move"
    /\ program[2].src = program[1].reg
    /\ program[3] \in {Eq(program[1].reg, program[2].dst), Eq(program[2].dst, program[1].reg)}

\* C10: Eq on two registers holding Objects (or Arrays) yields true exactly
\* when both hold the same aggregate; it is false for the aggregates of two
\* NewObject (NewArray) executions, whose contents are identical, and true for
\* one aggregate aliased into a second register by Move.
C10_EqIsReferenceIdentity ==
    /\ LastEqOnAggregates
           => registers[0] = Boolean(last.registers[last.ins.a].v
                                         = last.registers[last.ins.b].v)
    /\ (last.ins.op = "Eq" /\ last.at = Len(program) - 1 /\ TwoAllocations)
           => registers[0] = Boolean(FALSE)
    /\ (last.ins.op = "Eq" /\ last.at = 2 /\ OneAllocationAliased)
           => registers[0] = Boolean(TRUE)

\* C10 witness: Eq was executed on registers 1 and 2, which hold two distinct
\* Objects with identical contents (one key, bound to the same Value in both),
\* and register 0 holds Boolean(false).
C10_Witness ==
    /\ last.ins = Eq(1, 2)
    /\ TwoAllocations
    /\ registers[1].t = "Object"
    /\ registers[2].t = "Object"
    /\ registers[1].v # registers[2].v
    /\ heap[registers[1].v] = heap[registers[2].v]
    /\ heap[registers[1].v] # <<>>
    /\ registers[0] = Boolean(FALSE)
    /\ status = "running"

\* The instruction last executed met an operand of a variant it does not
\* accept.
LastTypeMismatch ==
    LET i == last.ins
        r == last.registers
    IN  CASE i.op \in {"Add", "Sub", "Mul", "Div", "Mod", "Pow"}
                 -> r[i.a].t # "Number" \/ r[i.b].t # "Number"
          [] i.op = "Neg" -> r[i.a].t # "Number"
          [] i.op \in {"GetProp", "SetProp"} -> r[i.obj].t # "Object" \/ r[i.key].t # "String"
          [] i.op \in {"GetElem", "SetElem"}
                 -> r[i.array].t # "Array" \/ r[i.index].t # "Number"
          [] i.op = "Call" -> r[i.func_reg].t # "Function"
          [] OTHER -> FALSE

\* C11: an arithmetic instruction or Neg with a non-Number operand, a GetProp
\* or SetProp with a non-Object object operand or a non-String key, a GetElem
\* or SetElem with a non-Array array operand or a non-Number index, and a Call
\* on a register not holding a Function stop the run at that instruction: the
\* counter, the registers, the aggregates, the scopes and the call stack are
\* as they were when it was fetched.
C11_TypeMismatchIsFatal ==
    LastTypeMismatch
        => /\ status = "panicked"
           /\ pc = last.at
           /\ registers = last.registers
           /\ heap = last.heap
           /\ scopes = last.scopes
           /\ call_stack = last.call_stack

\* C11 witness: Add with its destination on its first operand, which holds
\* Number(1), and a String as second operand stopped the run at position 2;
\* the destination still holds Number(1).
C11_Witness ==
    /\ last.ins = Add(1, 1, 2)
    /\ last.at = 2
    /\ last.registers[2].t = "String"
    /\ registers[1] = Number(1)
    /\ status = "panicked"
    /\ pc = 2

\* The instruction last executed was a SetElem (GetElem) on a register holding
\* an Array with an index register holding a Number.
LastElemOnArray(opname) ==
    /\ last.ins.op = opname
    /\ last.registers[last.ins.array].t = "Array"
    /\ last.registers[last.ins.index].t = "Number"

\* The integer position a finite index Number denotes: the index truncated
\* toward zero.
Position(x) == Trunc(x.v)

\* C12: a SetElem on an Array of length n whose index denotes the position
\* i >= 0 leaves, for i >= n, an Array of length i + 1 with positions 0 .. n-1
\* as they were, Undefined at n .. i-1 and the Value at i (index 3 on an empty
\* Array gives length 4 with Undefined at 0 .. 2); for i < n it leaves the
\* length and every position but i as they were and the Value at i.
C12_SetElemGrowsWithUndefined ==
    (/\ LastElemOnArray("SetElem")
     /\ IsFinite(last.registers[last.ins.index].v)
     /\ Position(last.registers[last.ins.index]) >= 0)
        => LET a == last.registers[last.ins.array].v
               i == Position(last.registers[last.ins.index])
               x == last.registers[last.ins.value]
               old == last.heap[a]
               new == heap[a]
               n == Len(old)
           IN  /\ status # "panicked"
               /\ Len(new) = (IF i >= n THEN i + 1 ELSE n)
               /\ new[i + 1] = x
               /\ \A p \in 0 .. (n - 1) : p # i => new[p + 1] = old[p + 1]
               /\ \A p \in n .. (i - 1) : new[p + 1] = Undefined
               /\ (n = 0 /\ i = 3) => new = <<Undefined, Undefined, Undefined, x>>

\* C12 witness: a SetElem at position 3 of an Array of length 1 left an Array
\* of length 4 whose position 0 is as it was and whose positions 1 and 2 are
\* Undefined.
C12_Witness ==
    /\ LastElemOnArray("SetElem")
    /\ last.registers[last.ins.index] = Number(3)
    /\ Len(last.heap[last.registers[last.ins.array].v]) = 1
    /\ Len(heap[last.registers[last.ins.array].v]) = 4
    /\ heap[last.registers[last.ins.array].v][1] = last.heap[last.registers[last.ins.array].v][1]
    /\ heap[last.registers[last.ins.array].v][2] = Undefined
    /\ heap[last.registers[last.ins.array].v][3] = Undefined
    /\ heap[last.registers[last.ins.array].v][4] = last.registers[last.ins.value]
    /\ status = "running"

\* The instruction last executed was a GetProp (SetProp) on a register holding
\* an Object with a key register holding a String.
LastPropOnObject(opname) ==
    /\ last.ins.op = opname
    /\ last.registers[last.ins.obj].t = "Object"
    /\ last.registers[last.ins.key].t = "String"

\* The index Number x denotes no position 0 .. n-1 of an Array of length n: it
\* is an infinity, or its position is negative, or at or past n.
NoValidPosition(x, n) ==
    /\ x.v # NaN
    /\ \/ ~IsFinite(x.v)
       \/ Position(x) < 0
       \/ Position(x) >= n

\* C13 as stated: a GetProp on an Object with a String key the Object does not
\* hold, and a GetElem on an Array with a Number index that denotes no valid
\* position of it (at or past the length, or negative), write Undefined to
\* dst; the run goes on and the aggregates are unchanged.
C13_MissesYieldUndefined ==
    /\ (/\ LastPropOnObject("GetProp")
        /\ last.registers[last.ins.key].v
               \notin DOMAIN last.heap[last.registers[last.ins.obj].v])
           => /\ registers[last.ins.dst] = Undefined
              /\ status # "panicked"
              /\ heap = last.heap
    /\ (/\ LastElemOnArray("GetElem")
        /\ NoValidPosition(last.registers[last.ins.index],
                           Len(last.heap[last.registers[last.ins.array].v])))
           => /\ registers[last.ins.dst] = Undefined
              /\ status # "panicked"
              /\ heap = last.heap

\* The places in stored of the completed stores into aggregate a under key
\* (or at position) k.
StoresAt(a, k) == {n \in 1 .. Len(stored) : stored[n].agg = a /\ stored[n].key = k}

\* The Value of the most recent of them.
LatestStored(a, k) ==
    stored[CHOOSE n \in StoresAt(a, k) : \A o \in StoresAt(a, k) : o <= n].value

\* C14: a GetProp on an Object with a String key under which a SetProp stored
\* before, whatever was stored under other keys since, writes to dst exactly
\* the Value the most recent SetProp of that key on that Object stored: the
\* same aggregate when the Value is an Object or Array, the Object itself
\* included; and a SetProp leaves every other key of the Object as it was.
C14_SetPropGetPropRoundTrip ==
    /\ (/\ LastPropOnObject("GetProp")
        /\ StoresAt(last.registers[last.ins.obj].v, last.registers[last.ins.key].v) # {})
           => /\ registers[last.ins.dst]
                     = LatestStored(last.registers[last.ins.obj].v, last.registers[last.ins.key].v)
              /\ status # "panicked"
    /\ LastPropOnObject("SetProp")
           => LET a == last.registers[last.ins.obj].v
                  k == last.registers[last.ins.key].v
              IN  /\ DOMAIN heap[a] = (DOMAIN last.heap[a]) \cup {k}
                  /\ \A o \in (DOMAIN last.heap[a]) \ {k} : heap[a][o] = last.heap[a][o]

\* C14 witness: the Object stored itself under one key, a Number under the
\* other key after that, and a GetProp of the first key wrote the Object to
\* dst, a register other than the one the Object was read through.
C14_Witness ==
    /\ LastPropOnObject("GetProp")
    /\ Len(stored) = 2
    /\ stored[1].value = last.registers[last.ins.obj]
    /\ stored[1].key = last.registers[last.ins.key].v
    /\ stored[2].key # stored[1].key
    /\ stored[2].agg = stored[1].agg
    /\ stored[2].value.t = "Number"
    /\ last.ins.dst # last.ins.obj
    /\ registers[last.ins.dst] = registers[last.ins.obj]
    /\ registers[last.ins.dst].t = "Object"
    /\ status = "running"

\* Every register but r is as it was when the last instruction was fetched.
OthersUnchanged(r) == \A o \in Regs \ {r} : registers[o] = last.registers[o]

\* C15: InstanceOf writes Boolean(true) to dst for the pairs (Object,
\* Function) and (Array, Function) of obj and ctor and Boolean(false) for
\* every other pair of variants; it raises no fault and writes nothing else.
C15_InstanceOfByVariantPair ==
    last.ins.op = "InstanceOf"
        => LET x == last.registers[last.ins.obj].t
               c == last.registers[last.ins.ctor].t
           IN  /\ registers[last.ins.dst]
                      = Boolean(<<x, c>> \in {<<"Object", "Function">>, <<"Array", "Function">>})
               /\ status # "panicked"
               /\ OthersUnchanged(last.ins.dst)
               /\ heap = last.heap

\* C15 witness: InstanceOf on an Array and a Function wrote Boolean(true).
C15_Witness ==
    /\ last.ins.op = "InstanceOf"
    /\ last.registers[last.ins.obj].t = "Array"
    /\ last.registers[last.ins.ctor].t = "Function"
    /\ registers[last.ins.dst] = Boolean(TRUE)
    /\ status = "running"

\* The tag of each variant.
TagOfVariant ==
    [Undefined |-> "undefined", Null |-> "object", Boolean |-> "boolean", Number |-> "number",
     String |-> "string", Object |-> "object", Array |-> "object", Function |-> "function"]

\* C16: TypeOf writes to dst the String tag of the variant src held:
\* "undefined" for Undefined, "object" for Null, Object and Array, "boolean",
\* "number", "string" and "function" for the others; it raises no fault for
\* any variant and changes no register but dst.
C16_TypeOfTags ==
    last.ins.op = "TypeOf"
        => /\ registers[last.ins.dst] = String(TagOfVariant[last.registers[last.ins.src].t])
           /\ status # "panicked"
           /\ OthersUnchanged(last.ins.dst)
           /\ heap = last.heap

\* C16 witness: TypeOf of a register holding Null wrote String("object") to
\* another register, the source still holding Null.
C16_Witness ==
    /\ last.ins.op = "TypeOf"
    /\ last.ins.dst # last.ins.src
    /\ registers[last.ins.src] = Null
    /\ registers[last.ins.dst] = String("object")
    /\ status = "running"

\* q is the payload of the fraction n/d (d # 0): finite, equal to it, and in
\* lowest terms with a positive denominator.
IsFraction(q, n, d) ==
    /\ q[2] > 0
    /\ q[1] * d = n * q[2]
    /\ \A h \in 2 .. q[2] : q[1] % h # 0 \/ q[2] % h # 0

\* q is x op y for two finite payloads x and y, by the arithmetic of
\* fractions; x / 0 is the infinity of x's sign (NaN for 0 / 0), x mod 0 is
\* NaN, and x mod y is the q with x = t * y + q for an integer t, smaller in
\* magnitude than y and of the sign of x.
IsResult(opname, x, y, q) ==
    CASE opname = "Add" -> IsFraction(q, x[1] * y[2] + y[1] * x[2], x[2] * y[2])
      [] opname = "Sub" -> IsFraction(q, x[1] * y[2] - y[1] * x[2], x[2] * y[2])
      [] opname = "Mul" -> IsFraction(q, x[1] * y[1], x[2] * y[2])
      [] opname = "Div" -> IF y[1] = 0 THEN q = <<Sign(x), 0>>
                           ELSE IsFraction(q, x[1] * y[2], x[2] * y[1])
      [] opname = "Mod" ->
             IF y[1] = 0 THEN q = NaN
             ELSE /\ \E t \in (0 - Abs(x[1] * y[2])) .. Abs(x[1] * y[2]) :
                         IsFraction(q, x[1] * y[2] - t * y[1] * x[2], x[2] * y[2])
                  /\ Abs(q[1]) * y[2] < Abs(y[1]) * q[2]
                  /\ Sign(q) \in {0, Sign(x)}

\* The instruction last executed was Add(dst, a, b) (or Sub, ...) on registers
\* holding Number(x) and Number(y).
LastArith(opname, dst, a, b, x, y) ==
    /\ last.ins = [op |-> opname, dst |-> dst, a |-> a, b |-> b]
    /\ last.registers[a] = Number(x)
    /\ last.registers[b] = Number(y)

\* C17: Add, Sub, Mul, Div and Mod on registers a and b holding Numbers x
\* and y write Number(x op y) to dst, computed from the Values a and b held
\* before the write (dst may be a or b), and Neg writes Number(-x); no other
\* register changes and no fault is raised.  5 + 7 = 12, 10 - 3 = 7,
\* 4 * 3 = 12, 8 / 2 = 4, 10 mod 3 = 1 and -(5) = -5.
C17_ArithmeticOnNumbers ==
    /\ (/\ last.ins.op \in {"Add", "Sub", "Mul", "Div", "Mod"}
        /\ last.registers[last.ins.a].t = "Number"
        /\ last.registers[last.ins.b].t = "Number")
           => LET x == last.registers[last.ins.a].v
                  y == last.registers[last.ins.b].v
              IN  /\ registers[last.ins.dst].t = "Number"
                  /\ IF IsFinite(x) /\ IsFinite(y)
                     THEN IsResult(last.ins.op, x, y, registers[last.ins.dst].v)
                     ELSE (x = NaN \/ y = NaN) => registers[last.ins.dst].v = NaN
                  /\ OthersUnchanged(last.ins.dst)
                  /\ status # "panicked"
    /\ (last.ins.op = "Neg" /\ last.registers[last.ins.a].t = "Number")
           => /\ registers[last.ins.dst]
                     = NumberF64(<<0 - last.registers[last.ins.a].v[1],
                                   last.registers[last.ins.a].v[2]>>)
              /\ OthersUnchanged(last.ins.dst)
              /\ status # "panicked"
    /\ LastArith("Add", 2, 0, 1, 5, 7) => registers[2] = Number(12)
    /\ LastArith("Sub", 2, 0, 1, 10, 3) => registers[2] = Number(7)
    /\ LastArith("Mul", 2, 0, 1, 4, 3) => registers[2] = Number(12)
    /\ LastArith("Div", 2, 0, 1, 8, 2) => registers[2] = Number(4)
    /\ LastArith("Mod", 2, 0, 1, 10, 3) => registers[2] = Number(1)
    /\ (last.ins = Neg(1, 0) /\ last.registers[0] = Number(5)) => registers[1] = Number(0 - 5)

\* C17 witness: Sub with its destination on its first operand, on registers
\* holding Number(3) and Number(2), left Number(1) in the destination.
C17_Witness ==
    /\ LastArith("Sub", 1, 1, 2, 3, 2)
    /\ registers[1] = Number(1)
    /\ registers[2] = Number(2)
    /\ status = "running"

\* C18: in every state of every run the scope stack holds exactly one entry
\* more than the call stack, so it is never empty, and no GetScope, SetScope
\* or DeclareVar ends the run.
C18_ScopesOneMoreThanCalls ==
    /\ Len(scopes) = Len(call_stack) + 1
    /\ last.ins.op \in {"GetScope", "SetScope", "DeclareVar"} => status # "panicked"

\* C18 witness: a SetScope was executed two calls deep, in the third scope of
\* the stack.
C18_Witness ==
    /\ last.ins.op = "SetScope"
    /\ Len(call_stack) = 2
    /\ Len(scopes) = 3
    /\ scopes[3] # <<>>
    /\ status = "running"

\* The variable the instruction last executed names, as the key of a scope.
LastVarKey ==
    IF last.ins.op = "DeclareVar" THEN VarKey(last.ins.name_idx) ELSE VarKey(last.ins.var_idx)

\* C19: GetScope reads and SetScope and DeclareVar write the scope on top of
\* the stack and no other; while a Call has not returned, the scopes that
\* were on the stack when it was executed are as they were, and they are the
\* whole stack again after its Return; so a GetScope in the callee of a
\* variable only the caller set yields Undefined, and a GetScope in the
\* caller after the Return yields what its scope held before the Call.
C19_OnlyTopScopeAccessed ==
    /\ \A n \in 1 .. Len(call_scopes) :
           /\ Len(scopes) >= Len(call_scopes[n])
           /\ SubSeq(scopes, 1, Len(call_scopes[n])) = call_scopes[n]
    /\ LastReturnWithCaller => scopes = last.call_scopes[Len(last.call_scopes)]
    /\ last.ins.op = "GetScope"
           => /\ scopes = last.scopes
              /\ registers[last.ins.dst]
                     = (IF LastVarKey \in DOMAIN last.scopes[Len(last.scopes)]
                        THEN last.scopes[Len(last.scopes)][LastVarKey]
                        ELSE Undefined)
    /\ last.ins.op \in {"SetScope", "DeclareVar"}
           => /\ Len(scopes) = Len(last.scopes)
              /\ \A n \in 1 .. (Len(scopes) - 1) : scopes[n] = last.scopes[n]
              /\ scopes[Len(scopes)][LastVarKey]
                     = (IF last.ins.op = "SetScope" THEN last.registers[last.ins.src]
                        ELSE Undefined)
    /\ (program \in ScopePrograms /\ last.at = 5) => registers[0] = Undefined
    /\ (program \in ScopePrograms /\ last.at = 3)
           => registers[2] = (IF program[2].op = "SetScope" THEN Function(4) ELSE Undefined)

\* C19 witness: the caller set a variable to Function(4); the callee read
\* Undefined for it and declared it in its own scope; after the Return the
\* GetScope at position 3 read Function(4).
C19_Witness ==
    /\ program \in ScopePrograms
    /\ program[2].op = "SetScope"
    /\ program[7] = DeclareVar(program[2].var_idx)
    /\ last.at = 3
    /\ last.ins.op = "GetScope"
    /\ registers[0] = Undefined
    /\ registers[2] = Function(4)
    /\ call_stack = <<>>
    /\ status = "running"

\* The aggregates that existed when the last instruction was fetched.
Existing == 1 .. Len(last.heap)

\* C20: Move leaves in dst the Value src held, the same aggregate when it is
\* an Object or Array, and a Value stored by SetProp or SetElem is what
\* GetProp or GetElem reads from that aggregate through any register that
\* holds it; every execution of NewObject and NewArray, in a loop too, leaves
\* in its register an empty aggregate that did not exist before, and a
\* SetProp or SetElem changes no aggregate but the one its register holds.
C20_SharingFollowsTheProgram ==
    /\ last.ins.op = "Move"
           => /\ registers[last.ins.dst] = last.registers[last.ins.src]
              /\ OthersUnchanged(last.ins.dst)
              /\ heap = last.heap
    /\ (program \in AliasPrograms /\ last.at = 4 /\ status # "panicked")
           => /\ Len(stored) = 1
              /\ registers[last.ins.dst] = stored[1].value
    /\ last.ins.op \in {"NewObject", "NewArray"}
           => /\ registers[last.ins.reg].t = (IF last.ins.op = "NewObject" THEN "Object"
                                               ELSE "Array")
              /\ registers[last.ins.reg].v \notin Existing
              /\ registers[last.ins.reg].v \in 1 .. Len(heap)
              /\ heap[registers[last.ins.reg].v] = <<>>
              /\ \A o \in Existing : heap[o] = last.heap[o]
    /\ (LastPropOnObject("SetProp") \/ LastElemOnArray("SetElem"))
           => /\ Len(heap) = Len(last.heap)
              /\ \A o \in Existing :
                     LET target == IF last.ins.op = "SetProp"
                                   THEN last.registers[last.ins.obj].v
                                   ELSE last.registers[last.ins.array].v
                     IN  o # target => heap[o] = last.heap[o]
    /\ (program \in LoopPrograms /\ last.at = 3 /\ status # "panicked")
           => /\ registers[1].v = Len(heap)
              /\ Len(stored) = Len(heap)
              /\ \A o \in 1 .. Len(heap) : stored[o].agg = o /\ heap[o] # <<>>
              /\ \A o \in 1 .. Len(heap) :
                     program[3].op = "SetProp" => DOMAIN heap[o] = {stored[o].key}

\* C20 witness: an Object was aliased by Move, stored into itself through
\* register 2 and read through register 1: the GetProp wrote the Object to
\* register 0.
C20_Witness ==
    /\ program \in AliasPrograms
    /\ program[4].op = "SetProp"
    /\ program[4].obj = 2
    /\ program[4].value = 1
    /\ last.at = 4
    /\ last.ins = GetProp(0, 1, 0)
    /\ registers[0] = registers[1]
    /\ registers[0].t = "Object"
    /\ status = "running"

\* The instruction about to be fetched is a DeclareFunc.
AtDeclareFunc == Running /\ Fetch.op = "DeclareFunc"

\* C21: a DeclareFunc at position p writes Function(p) to its destination
\* register and changes nothing else (no other register, neither stack, no
\* aggregate, not the strict-mode flag), whatever its name_idx and
\* param_count are; the counter is p + 1 afterwards and the run goes on, so
\* the instruction fetched next is the first one of the body.
C21_DeclareFuncFallsThrough ==
    [][AtDeclareFunc
           => /\ registers' = [registers EXCEPT ![Fetch.reg] = Function(pc)]
              /\ pc' = pc + 1
              /\ status' = "running"
              /\ UNCHANGED <<call_stack, scopes, heap, strict_mode, stored>>]_vars

\* C21 witness: the DeclareFunc at position 1, with a name_idx and a
\* param_count that are not 0, wrote Function(1); the JmpIf and the
\* instruction of the body after it were then executed with an empty call
\* stack, and the counter is at the body's Return.
C21_Witness ==
    /\ program \in DeclarePrograms
    /\ program[2].name_idx = MaxVar
    /\ program[2].param_count = MaxArg
    /\ last.at = 3
    /\ last.ins = UseStrict
    /\ last.registers[program[2].reg] = Function(1)
    /\ call_stack = <<>>
    /\ strict_mode = TRUE
    /\ pc = 4
    /\ status = "running"

\* The scope on top of the stack when the instruction last executed was
\* fetched, and on top of the stack now.
LastTop == last.scopes[Len(last.scopes)]

Top == scopes[Len(scopes)]

\* Scope m holds exactly the variables of f, each under the key of its index.
HoldsSlots(m, f) ==
    /\ DOMAIN m = {VarKey(i) : i \in DOMAIN f}
    /\ \A i \in DOMAIN f : m[VarKey(i)] = f[i]

\* The variables with an index other than that of the instruction last
\* executed are in the top scope what they were.
OtherVarsUnchanged ==
    \A j \in VarIdxs :
        VarKey(j) # LastVarKey
            => /\ VarKey(j) \in DOMAIN Top <=> VarKey(j) \in DOMAIN LastTop
               /\ VarKey(j) \in DOMAIN Top => Top[VarKey(j)] = LastTop[VarKey(j)]

\* C22: every scope of the stack holds exactly the variables written while it
\* was on top, one per index, each with the Value written last: SetScope i,src
\* makes variable i the Value of src, DeclareVar i makes it Undefined also
\* when it held a Value, and neither changes a variable of another index;
\* GetScope dst,i writes to dst the Value of variable i of the top scope, and
\* Undefined when no SetScope or DeclareVar of i was executed in it, and
\* never ends the run.
C22_ScopeVariablesByIndex ==
    /\ Len(slots) = Len(scopes)
    /\ \A n \in 1 .. Len(scopes) : HoldsSlots(scopes[n], slots[n])
    /\ last.ins.op = "GetScope"
           => /\ status # "panicked"
              /\ scopes = last.scopes
              /\ registers = [last.registers EXCEPT ![last.ins.dst] =
                                  IF last.ins.var_idx \in DOMAIN slots[Len(slots)]
                                  THEN slots[Len(slots)][last.ins.var_idx]
                                  ELSE Undefined]
    /\ last.ins.op = "SetScope"
           => /\ status # "panicked"
              /\ Top[LastVarKey] = last.registers[last.ins.src]
              /\ OtherVarsUnchanged
    /\ last.ins.op = "DeclareVar"
           => /\ status # "panicked"
              /\ Top[LastVarKey] = Undefined
              /\ OtherVarsUnchanged

\* C22 witness: variable 1 was set to a String, variable 11 was then declared,
\* and the GetScope of variable 1 wrote the String to its destination; the
\* top scope holds both variables.
C22_Witness ==
    /\ program \in VarPrograms
    /\ program[3] = SetScope(1, 1)
    /\ program[4] = DeclareVar(11)
    /\ last.at = 4
    /\ last.ins = GetScope(0, 1)
    /\ registers[0] = String("a")
    /\ DOMAIN Top = {VarKey(1), VarKey(11)}
    /\ Top[VarKey(11)] = Undefined
    /\ status = "running"

\* The instruction last executed was a Call on a register holding the
\* Function that the DeclareFunc at position d makes.
LastCallOnDeclared(d) ==
    /\ LastCallOnFunction
    /\ last.registers[last.ins.func_reg] = Function(d)
    /\ InProgram(d)
    /\ program[d + 1].op = "DeclareFunc"

\* C23: after a Call at position p on a Function made by the DeclareFunc at
\* position d the counter is d + 1, the first instruction of the body, with
\* one more entry on each stack; after the Return that takes the entry of
\* that Call from the call stack the counter is p + 1, the instruction after
\* the Call, and the scope stack and the call stack are as deep as they were
\* when the Call was fetched.
C23_CallEntersBodyReturnResumes ==
    /\ \A d \in 0 .. (Len(program) - 1) :
           LastCallOnDeclared(d)
               => /\ pc = d + 1
                  /\ status # "panicked"
                  /\ Len(call_stack) = Len(last.call_stack) + 1
                  /\ Len(scopes) = Len(last.scopes) + 1
    /\ LastReturnWithCaller
           => /\ pc = last.call_stack[Len(last.call_stack)] + 1
              /\ status # "panicked"
              /\ Len(scopes) = Len(last.call_scopes[Len(last.call_scopes)])
              /\ Len(call_stack) = Len(last.call_scopes[Len(last.call_scopes)]) - 1
    /\ (program \in DeclarePrograms /\ last.at = 6 /\ status # "panicked")
           => /\ last.registers[last.ins.func_reg] = Function(1)
              /\ pc = 2
    /\ (program \in DeclarePrograms /\ last.at = 4 /\ status # "panicked")
           => /\ pc = 7
              /\ call_stack = <<>>
              /\ Len(scopes) = 1

\* C23 witness: the DeclareFunc at position 1 made Function(1); the Call at
\* position 6 on it entered the body at position 2, the body set a variable
\* in its own scope, and the Return at position 4 resumed at position 7 with
\* an empty call stack and the one scope of the caller.
C23_Witness ==
    /\ program \in DeclarePrograms
    /\ program[4].op = "SetScope"
    /\ last.at = 4
    /\ last.ins.op = "Return"
    /\ last.call_stack = <<6>>
    /\ last.scopes[2] # EmptyMap
    /\ last.registers[program[7].func_reg] = Function(1)
    /\ pc = 7
    /\ call_stack = <<>>
    /\ scopes = <<EmptyMap>>
    /\ status = "running"

\* C24: in every state every entry of the call stack is a position of the
\* program that holds a Call; a Call on a Function puts its own position on
\* top of the call stack, a Return with a non-empty call stack takes the top
\* entry off and the run goes on from that position (at the instruction after
\* it), and no other instruction changes the call stack: the entry a Return
\* takes is that of the most recent Call that has not returned.
C24_CallStackHoldsCallsLifo ==
    /\ \A n \in 1 .. Len(call_stack) :
           /\ InProgram(call_stack[n])
           /\ program[call_stack[n] + 1].op = "Call"
    /\ Len(call_scopes) = Len(call_stack)
    /\ \A n \in 1 .. Len(call_stack) : Len(call_scopes[n]) = n
    /\ (LastCallOnFunction /\ status # "panicked")
           => call_stack = Append(last.call_stack, last.at)
    /\ LastReturnWithCaller
           => /\ call_stack = Front(last.call_stack)
              /\ pc = last.call_stack[Len(last.call_stack)] + 1
              /\ call_scopes = Front(last.call_scopes)
    /\ ~(LastCallOnFunction \/ LastReturnWithCaller) => call_stack = last.call_stack

\* C24 witness: the Call at position 6 and then the Call at position 1 were
\* executed; the Return at position 3 took the entry 1 and left the entry 6,
\* and the run goes on at position 2.
C24_Witness ==
    /\ program \in NestPrograms
    /\ last.at = 3
    /\ last.ins.op = "Return"
    /\ last.call_stack = <<6, 1>>
    /\ call_stack = <<6>>
    /\ pc = 2
    /\ status = "running"

====
